---- MODULE Spec2Model ----
(***************************************************************************)
(* Household flood adaptation with a subsidising government                *)
(* (base_model_mesa/model/agents.py).                                      *)
(*                                                                         *)
(* Units.  Money is an integer.  risk_aversness is in percent (0..100).    *)
(* A flood damage fraction is in 1/10000 (10000 = 1.0) and a damage        *)
(* reduction factor in percent (70 = 0.7), so every product of the code is *)
(* an exact integer here.                                                  *)
(***************************************************************************)
EXTENDS Integers, Sequences, FiniteSets, TLC

VARIABLES
    wealth,                  \* Households.wealth
    is_adapted,              \* Households.is_adapted
    selected_measure,        \* Households.selected_measure
    flood_damage_estimated,  \* Households.flood_damage_estimated
    flood_depth_estimated,   \* Households.flood_depth_estimated
    flood_depth_actual,      \* Households.flood_depth_actual
    flood_damage_actual,     \* Households.flood_damage_actual
    adaptation_budget,       \* Households.adaptation_budget
    risk_aversness,          \* Households.risk_aversness
    neighbours,              \* Households.neighbours (a list)
    subsidy_budget,          \* Government.subsidy_budget
    steps,                   \* model.schedule.steps
    turn,                    \* the agent the scheduler activates next
    tickStart,               \* history: wealth and is_adapted when the tick began
    collab,                  \* history: the last household step's collaboration phase
    pass,                    \* history: the last government step
    created                  \* history: wealth and subsidy_budget at construction

vars == <<wealth, is_adapted, selected_measure, flood_damage_estimated,
          flood_depth_estimated, flood_depth_actual, flood_damage_actual,
          adaptation_budget, risk_aversness, neighbours, subsidy_budget,
          steps, turn, tickStart, collab, pass, created>>

(***************************************************************************)
(* Bounds of the model.                                                    *)
(***************************************************************************)
NumHouseholds == 6
MaxSteps == 5

Households == 1..NumHouseholds
GovernmentTurn == NumHouseholds + 1
EndOfRound == NumHouseholds + 2

(***************************************************************************)
(* Program constants.                                                      *)
(***************************************************************************)
NoMeasure == "None"
InitialSubsidyBudget == 200000
subsidy_amount == 6000
PerTickCount == 3
TriggerPeriod == 4
WealthEligibility == 10000
WealthAdaptationThreshold == 5000
PoolingThreshold == 50000
minimum_damage_threshold == 1000
adaptation_threshold == 15
DefaultReduction == 100

\* Households.flood_measures, in the dict's insertion order
flood_measures ==
    << [measure |-> "Sandbags", cost |-> 5000],
       [measure |-> "Elevating the house", cost |-> 80000],
       [measure |-> "Relocating electrical systems", cost |-> 25000],
       [measure |-> "Collaborative project", cost |-> 1000000] >>

Measures == {flood_measures[i].measure : i \in 1..Len(flood_measures)}

\* reduction_factors.get(measure, 1)
calculate_damage_reduction_factor(measure) ==
    CASE measure = "Sandbags" -> 5
      [] measure = "Elevating the house" -> 70
      [] measure = "Relocating electrical systems" -> 30
      [] measure = "Collaborative project" -> 80
      [] OTHER -> DefaultReduction

(***************************************************************************)
(* Households.__init__: measure selection and the estimated damage.        *)
(***************************************************************************)
AffordableMeasures(budget) ==
    SelectSeq(flood_measures, LAMBDA e : e.cost <= budget)

\* max(affordable_measures, key=affordable_measures.get): the first entry,
\* in iteration order, whose cost no later entry exceeds
RECURSIVE MaxByCost(_, _, _)
MaxByCost(entries, i, best) ==
    IF i > Len(entries) THEN best
    ELSE MaxByCost(entries, i + 1,
                   IF entries[i].cost > best.cost THEN entries[i] ELSE best)

RECURSIVE MinByCost(_, _, _)
MinByCost(entries, i, best) ==
    IF i > Len(entries) THEN best
    ELSE MinByCost(entries, i + 1,
                   IF entries[i].cost < best.cost THEN entries[i] ELSE best)

SelectCheapestMeasure(budget) ==
    LET affordable == AffordableMeasures(budget)
    IN  IF Len(affordable) > 0
        THEN MinByCost(affordable, 2, affordable[1]).measure
        ELSE NoMeasure

SelectMeasure(budget) ==
    LET affordable == AffordableMeasures(budget)
    IN  IF Len(affordable) > 0
        THEN MaxByCost(affordable, 2, affordable[1]).measure
        ELSE NoMeasure

\* self.wealth * self.risk_aversness, rounded down to a whole unit of money:
\* every cost is whole, so cost <= budget is unaffected
AdaptationBudget(w, risk) == (w * risk) \div 100

\* if self.flood_depth_estimated < 0: self.flood_depth_estimated = 0
ClampDepth(sample) == IF sample < 0 THEN 0 ELSE sample

\* functions.calculate_basic_flood_damage: a fraction in [0,1], non-decreasing
\* in the depth (here in centimetres) and saturating at 1
SaturationDepth == 600
calculate_basic_flood_damage(depth) ==
    IF depth <= 0 THEN 0
    ELSE IF depth >= SaturationDepth THEN 10000
    ELSE (depth * 10000) \div SaturationDepth

DamageDividedByFactor(basic, measure) ==
    IF measure # NoMeasure
    THEN (basic * 100) \div calculate_damage_reduction_factor(measure)
    ELSE basic

\* basic is what calculate_basic_flood_damage returned for the estimated depth
InitialDamageEstimate(basic, measure) ==
    IF measure # NoMeasure
    THEN (basic * calculate_damage_reduction_factor(measure)) \div 100
    ELSE basic

(***************************************************************************)
(* Households.receive_subsidy and re_evaluate_adaptation, on household h   *)
(* of a population record [wealth, is_adapted].                            *)
(***************************************************************************)
re_evaluate_skipped(w, adapted) == adapted

re_evaluate_above_threshold(w, adapted) ==
    IF w > WealthAdaptationThreshold /\ ~adapted THEN TRUE ELSE adapted

re_evaluate_adaptation(w, adapted) ==
    IF w >= WealthAdaptationThreshold /\ ~adapted THEN TRUE ELSE adapted

receive_subsidy_overwriting(pop, h, amount) ==
    LET w == amount
    IN  [pop EXCEPT !.wealth[h] = w,
                    !.is_adapted[h] = re_evaluate_adaptation(w, pop.is_adapted[h])]

receive_subsidy(pop, h, amount) ==
    LET w == pop.wealth[h] + amount
    IN  [pop EXCEPT !.wealth[h] = w,
                    !.is_adapted[h] = re_evaluate_adaptation(w, pop.is_adapted[h])]

(***************************************************************************)
(* Households.collaborate_on_adaptation and update_collaboration_status,   *)
(* on a population record [wealth, is_adapted, selected_measure].          *)
(***************************************************************************)
RECURSIVE SumWealth(_, _, _)
SumWealth(w, list, i) ==
    IF i > Len(list) THEN 0 ELSE w[list[i]] + SumWealth(w, list, i + 1)

\* total_wealth = self.wealth, then += neighbour.wealth for each neighbour
TotalWealth(w, h) == w[h] + SumWealth(w, neighbours[h], 1)

CollaborationStarts(total) == total > PoolingThreshold

update_collaboration_status(measure, adapted) ==
    IF measure = "Collaborative project" THEN TRUE ELSE adapted

WithInitiator(h) == Append(neighbours[h], h)

EveryHousehold(h) == [i \in 1..NumHouseholds |-> i]

\* the households the second loop of collaborate_on_adaptation reassigns
CollaborationTargets(h) == neighbours[h]

RECURSIVE AssignCollaboration(_, _, _)
AssignCollaboration(pop, list, i) ==
    IF i > Len(list) THEN pop
    ELSE LET n == list[i]
             m == "Collaborative project"
         IN  AssignCollaboration(
                 [pop EXCEPT !.selected_measure[n] = m,
                             !.is_adapted[n] =
                                 update_collaboration_status(m, pop.is_adapted[n])],
                 list, i + 1)

CollaborateAndRescale(pop, h) ==
    IF CollaborationStarts(TotalWealth(pop.wealth, h))
    THEN LET targets == CollaborationTargets(h)
             out == AssignCollaboration(pop, targets, 1)
         IN  [out EXCEPT !.flood_damage_estimated =
                 [g \in DOMAIN pop.flood_damage_estimated |->
                     IF \E i \in 1..Len(targets) : targets[i] = g
                     THEN (pop.flood_damage_estimated[g]
                           * calculate_damage_reduction_factor("Collaborative project"))
                          \div 100
                     ELSE pop.flood_damage_estimated[g]]]
    ELSE pop

collaborate_on_adaptation(pop, h) ==
    IF CollaborationStarts(TotalWealth(pop.wealth, h))
    THEN AssignCollaboration(pop, CollaborationTargets(h), 1)
    ELSE pop

(***************************************************************************)
(* Households.step: the collaboration phase, then the evaluation.          *)
(***************************************************************************)
EvaluateByDamageOnly(damage, measure, adapted) ==
    damage < minimum_damage_threshold

EvaluateWithDefaultFactor(damage, measure, adapted) ==
    IF damage < minimum_damage_threshold THEN TRUE
    ELSE IF calculate_damage_reduction_factor(measure) >= adaptation_threshold
         THEN TRUE
         ELSE adapted

EvaluateWithReset(damage, measure, adapted) ==
    IF damage < minimum_damage_threshold THEN TRUE
    ELSE measure # NoMeasure
         /\ calculate_damage_reduction_factor(measure) >= adaptation_threshold

EvaluateAdaptation(damage, measure, adapted) ==
    IF damage < minimum_damage_threshold THEN TRUE
    ELSE IF measure # NoMeasure
            /\ calculate_damage_reduction_factor(measure) >= adaptation_threshold
         THEN TRUE
         ELSE adapted

HouseholdStep(h) ==
    /\ turn = h
    /\ steps < MaxSteps
    /\ LET before == [wealth |-> wealth, is_adapted |-> is_adapted,
                      selected_measure |-> selected_measure,
                      flood_damage_estimated |-> flood_damage_estimated]
           mid == collaborate_on_adaptation(before, h)
       IN  /\ selected_measure' = mid.selected_measure
           /\ flood_damage_estimated' = mid.flood_damage_estimated
           /\ is_adapted' =
                  [mid.is_adapted EXCEPT
                      ![h] = EvaluateAdaptation(flood_damage_estimated[h],
                                                mid.selected_measure[h],
                                                mid.is_adapted[h])]
           /\ collab' = [initiator |-> h,
                         total |-> TotalWealth(wealth, h),
                         before |-> [is_adapted |-> is_adapted,
                                     selected_measure |-> selected_measure],
                         is_adapted |-> mid.is_adapted,
                         selected_measure |-> mid.selected_measure]
    /\ turn' = h + 1
    /\ UNCHANGED <<wealth, flood_depth_estimated, flood_depth_actual,
                   flood_damage_actual, adaptation_budget, risk_aversness,
                   neighbours, subsidy_budget, steps, tickStart, pass, created>>

(***************************************************************************)
(* Government.step and support_non_adapted_households.                     *)
(***************************************************************************)
\* model.schedule.agents restricted to Households, in the schedule's order
AgentOrder == [i \in 1..NumHouseholds |-> i]

RECURSIVE Reverse(_)
Reverse(list) ==
    IF list = <<>> THEN <<>> ELSE Append(Reverse(Tail(list)), Head(list))

NonAdaptedReversed(adapted) ==
    Reverse(SelectSeq(AgentOrder, LAMBDA h : ~adapted[h]))

NonAdaptedAtTickStart(adapted) ==
    SelectSeq(AgentOrder, LAMBDA h : ~tickStart.is_adapted[h])

NonAdaptedHouseholds(adapted) ==
    SelectSeq(AgentOrder, LAMBDA h : ~adapted[h])

TriggersOffByOne(s) == s % TriggerPeriod = 1

GovernmentTriggers(s) == s % TriggerPeriod = 0

CapReachedLate(count) == count < 0

CapReached(count) == count <= 0

CanDisburseIgnoringBudget(w, budget) == w < WealthEligibility

CanDisburseStrictBudget(w, budget) ==
    w < WealthEligibility /\ budget > subsidy_amount

CanDisburseAtThreshold(w, budget) ==
    w <= WealthEligibility /\ budget >= subsidy_amount

CanDisburse(w, budget) ==
    w < WealthEligibility /\ budget >= subsidy_amount

\* the for loop over non_adapted_households; st carries the loop's state and
\* the list of disbursals made so far
RECURSIVE WalkList(_, _, _)
WalkList(list, i, st) ==
    IF i > Len(list) THEN st
    ELSE IF CapReached(st.count) THEN st
    ELSE LET h == list[i]
         IN  IF CanDisburse(st.wealth[h], st.subsidy_budget)
             THEN LET got == receive_subsidy(
                                 [wealth |-> st.wealth, is_adapted |-> st.is_adapted],
                                 h, subsidy_amount)
                  IN  WalkList(list, i + 1,
                          [wealth |-> got.wealth,
                           is_adapted |-> got.is_adapted,
                           subsidy_budget |-> st.subsidy_budget - subsidy_amount,
                           count |-> st.count - 1,
                           log |-> Append(st.log,
                                      [household |-> h,
                                       amount |-> subsidy_amount,
                                       wealth |-> st.wealth[h],
                                       subsidy_budget |-> st.subsidy_budget])])
             ELSE WalkList(list, i + 1, st)

support_non_adapted_households(st) ==
    IF st.subsidy_budget <= 0 THEN st
    ELSE WalkList(NonAdaptedHouseholds(st.is_adapted), 1, st)

GovernmentStep ==
    /\ turn = GovernmentTurn
    /\ LET st == [wealth |-> wealth, is_adapted |-> is_adapted,
                  subsidy_budget |-> subsidy_budget,
                  count |-> PerTickCount, log |-> <<>>]
           ran == GovernmentTriggers(steps)
           out == IF ran THEN support_non_adapted_households(st) ELSE st
       IN  /\ wealth' = out.wealth
           /\ is_adapted' = out.is_adapted
           /\ subsidy_budget' = out.subsidy_budget
           /\ pass' = [ran |-> ran, steps |-> steps,
                       subsidy_budget |-> subsidy_budget,
                       wealth |-> wealth, is_adapted |-> is_adapted,
                       log |-> out.log]
    /\ turn' = EndOfRound
    /\ UNCHANGED <<selected_measure, flood_damage_estimated,
                   flood_depth_estimated, flood_depth_actual, flood_damage_actual,
                   adaptation_budget, risk_aversness, neighbours, steps,
                   tickStart, collab, created>>

(***************************************************************************)
(* The scheduler: households in population order, then the government,     *)
(* then the step counter advances.                                         *)
(***************************************************************************)
EndRound ==
    /\ turn = EndOfRound
    /\ steps' = steps + 1
    /\ turn' = 1
    /\ tickStart' = [wealth |-> wealth, is_adapted |-> is_adapted,
                     selected_measure |-> selected_measure,
                     subsidy_budget |-> subsidy_budget]
    /\ UNCHANGED <<wealth, is_adapted, selected_measure, flood_damage_estimated,
                   flood_depth_estimated, flood_depth_actual, flood_damage_actual,
                   adaptation_budget, risk_aversness, neighbours,
                   subsidy_budget, collab, pass, created>>

Next ==
    \/ \E h \in Households : HouseholdStep(h)
    \/ GovernmentStep
    \/ EndRound

(***************************************************************************)
(* Initial states: the population after construction.                      *)
(***************************************************************************)
\* What one household's constructor draws: wealth, risk_aversness (percent)
\* and the flood depth sampled at its location (centimetres, may be negative).
\* random.uniform(0, 10000) returns a <= N <= b, so 10000 is the largest
\* initial wealth.
PoorProfile == [wealth |-> 9000, risk |-> 0, depth |-> 300]
CeilingProfile == [wealth |-> 10000, risk |-> 0, depth |-> 300]
SandbagProfile == [wealth |-> 9000, risk |-> 60, depth |-> 300]

Profiles == {PoorProfile, CeilingProfile, SandbagProfile}

RECURSIVE Others(_, _)
Others(h, i) ==
    IF i > NumHouseholds THEN <<>>
    ELSE IF i = h THEN Others(h, i + 1)
    ELSE <<i>> \o Others(h, i + 1)

\* Neighbour lists as add_neighbour leaves them: no duplicates.  The networks
\* are undirected and no household is its own neighbour.
NoNetwork == [h \in Households |-> <<>>]
StarNetwork == [h \in Households |-> IF h = 1 THEN Others(1, 1) ELSE <<1>>]
CompleteNetwork == [h \in Households |-> Others(h, 1)]
\* households 1..5 are each other's neighbours, the rest have none
ClusterNetwork ==
    [h \in Households |->
        IF h <= 5 THEN SelectSeq(Others(h, 1), LAMBDA g : g <= 5) ELSE <<>>]

Networks == {NoNetwork, StarNetwork, CompleteNetwork, ClusterNetwork}

Constructed(profile, network, budget) ==
    /\ wealth = [h \in Households |-> profile[h].wealth]
    /\ risk_aversness = [h \in Households |-> profile[h].risk]
    /\ adaptation_budget =
           [h \in Households |-> AdaptationBudget(profile[h].wealth, profile[h].risk)]
    /\ selected_measure =
           [h \in Households |->
               SelectMeasure(AdaptationBudget(profile[h].wealth, profile[h].risk))]
    /\ flood_depth_estimated =
           [h \in Households |-> ClampDepth(profile[h].depth)]
    /\ flood_damage_estimated =
           [h \in Households |->
               InitialDamageEstimate(
                   calculate_basic_flood_damage(ClampDepth(profile[h].depth)),
                   SelectMeasure(AdaptationBudget(profile[h].wealth, profile[h].risk)))]
    /\ flood_depth_actual = [h \in Households |-> 0]
    /\ flood_damage_actual =
           [h \in Households |-> calculate_basic_flood_damage(0)]
    /\ created = [wealth |-> [h \in Households |-> profile[h].wealth],
                  subsidy_budget |-> budget]
    /\ is_adapted = [h \in Households |-> FALSE]
    /\ neighbours = network
    /\ subsidy_budget = budget
    /\ steps = 0
    /\ turn = 1
    /\ tickStart = [wealth |-> [h \in Households |-> profile[h].wealth],
                    is_adapted |-> [h \in Households |-> FALSE],
                    selected_measure |->
                        [h \in Households |->
                            SelectMeasure(AdaptationBudget(profile[h].wealth,
                                                           profile[h].risk))],
                    subsidy_budget |-> budget]
    /\ collab = [initiator |-> 0, total |-> 0,
                 before |-> [is_adapted |-> [h \in Households |-> FALSE],
                             selected_measure |-> [h \in Households |-> NoMeasure]],
                 is_adapted |-> [h \in Households |-> FALSE],
                 selected_measure |-> [h \in Households |-> NoMeasure]]
    /\ pass = [ran |-> FALSE, steps |-> -1, subsidy_budget |-> budget,
               wealth |-> [h \in Households |-> profile[h].wealth],
               is_adapted |-> [h \in Households |-> FALSE],
               log |-> <<>>]

Init ==
    \E profile \in [Households -> Profiles], network \in Networks :
        Constructed(profile, network, InitialSubsidyBudget)

Spec == Init /\ [][Next]_vars

(***************************************************************************)
(* A government late in a run.  Every disbursal takes 6000 from 200000, so *)
(* populations of more than 30 households leave 14000, 8000 and then 2000; *)
(* 12000, 6000 and 0 are the budgets of the specification's third scenario.*)
(***************************************************************************)
PassBudgets == {InitialSubsidyBudget, 14000, 8000, 2000, 12000, 6000, 0}

InitPass ==
    \E profile \in [Households -> Profiles], budget \in PassBudgets :
        Constructed(profile, NoNetwork, budget)

SpecPass == InitPass /\ [][Next]_vars

(***************************************************************************)
(* The constructor and the step of household 1 over a wide range of        *)
(* wealth, risk_aversness and flood depth; the other households are poor.  *)
(***************************************************************************)
UnitWealths == {100, 4999, 5000, 24999, 25000, 79999, 80000, 90000,
                999999, 1000000, 2000000}
UnitRisks == {50, 100}
UnitDepths == {-200, 30, 60, 300, 600, 900}

UnitProfiles ==
    {[wealth |-> w, risk |-> r, depth |-> d] :
        w \in UnitWealths, r \in UnitRisks, d \in UnitDepths}

InitUnit ==
    \E first \in UnitProfiles, network \in {NoNetwork, CompleteNetwork} :
        Constructed([h \in Households |-> IF h = 1 THEN first ELSE PoorProfile],
                    network, InitialSubsidyBudget)

SpecUnit == InitUnit /\ [][Next]_vars

(***************************************************************************)
(* Populations drawn from the ends of the constructor's ranges: wealth 0   *)
(* and 10000 with risk_aversness 1, next to the poor households.           *)
(***************************************************************************)
DestituteProfile == [wealth |-> 0, risk |-> 100, depth |-> 300]
FullRiskProfile == [wealth |-> 10000, risk |-> 100, depth |-> 300]

LowProfiles == {DestituteProfile, PoorProfile, FullRiskProfile}

InitLow ==
    \E profile \in [Households -> LowProfiles],
       network \in {NoNetwork, ClusterNetwork} :
        Constructed(profile, network, InitialSubsidyBudget)

SpecLow == InitLow /\ [][Next]_vars

(***************************************************************************)
(* Households.receive_subsidy called directly, with any amount, on any     *)
(* household of a population of destitute and poor households.  The calls  *)
(* stop once they have granted MaxGranted in total.                        *)
(***************************************************************************)
MaxGranted == 6000

SubsidyAmounts == {0, 2500, subsidy_amount}

Granted == SumWealth(wealth, AgentOrder, 1) - SumWealth(created.wealth, AgentOrder, 1)

ReceiveSubsidyCall(h, amount) ==
    /\ Granted + amount <= MaxGranted
    /\ LET got == receive_subsidy(
                      [wealth |-> wealth, is_adapted |-> is_adapted,
                       selected_measure |-> selected_measure],
                      h, amount)
       IN  /\ wealth' = got.wealth
           /\ is_adapted' = got.is_adapted
           /\ selected_measure' = got.selected_measure
    /\ pass' = [ran |-> FALSE, steps |-> steps,
                subsidy_budget |-> subsidy_budget,
                wealth |-> wealth, is_adapted |-> is_adapted,
                log |-> << [household |-> h, amount |-> amount,
                            wealth |-> wealth[h],
                            subsidy_budget |-> subsidy_budget] >>]
    /\ UNCHANGED <<flood_damage_estimated, flood_depth_estimated,
                   flood_depth_actual, flood_damage_actual, adaptation_budget,
                   risk_aversness, neighbours, subsidy_budget, steps, turn,
                   tickStart, collab, created>>

NextCalls == \E h \in Households, amount \in SubsidyAmounts : ReceiveSubsidyCall(h, amount)

\* the first k households are destitute and the others poor
InitCalls ==
    \E k \in 0..NumHouseholds :
        Constructed([h \in Households |->
                        IF h <= k THEN DestituteProfile ELSE PoorProfile],
                    NoNetwork, InitialSubsidyBudget)

SpecCalls == InitCalls /\ [][NextCalls]_vars

(***************************************************************************)
(* Runs of unboundedly many ticks.  The step counter is read only through  *)
(* steps % 4 (Government.step), so the counter is kept modulo the trigger  *)
(* period; the scheduler never stops, hence the weak fairness.             *)
(***************************************************************************)
EndRoundForever ==
    /\ turn = EndOfRound
    /\ steps' = (steps + 1) % TriggerPeriod
    /\ turn' = 1
    /\ tickStart' = [wealth |-> wealth, is_adapted |-> is_adapted,
                     selected_measure |-> selected_measure,
                     subsidy_budget |-> subsidy_budget]
    /\ UNCHANGED <<wealth, is_adapted, selected_measure, flood_damage_estimated,
                   flood_depth_estimated, flood_depth_actual, flood_damage_actual,
                   adaptation_budget, risk_aversness, neighbours,
                   subsidy_budget, collab, pass, created>>

NextForever ==
    \/ \E h \in Households : HouseholdStep(h)
    \/ GovernmentStep
    \/ EndRoundForever

LiveBudgets == {InitialSubsidyBudget, 8000}

\* the first k households destitute, the next up to j poor, the rest at the
\* top of both ranges
InitForever ==
    \E k \in 0..NumHouseholds, j \in 0..NumHouseholds,
       network \in {NoNetwork, ClusterNetwork}, budget \in LiveBudgets :
        /\ k <= j
        /\ Constructed([h \in Households |->
                           IF h <= k THEN DestituteProfile
                           ELSE IF h <= j THEN PoorProfile
                           ELSE FullRiskProfile],
                       network, budget)

SpecForever == InitForever /\ [][NextForever]_vars /\ WF_vars(NextForever)

(***************************************************************************)
(* Households.add_neighbour called directly, in any order, among the first *)
(* NetworkSize households, until the lists hold MaxEntries entries.        *)
(***************************************************************************)
NetworkSize == 3
MaxEntries == 3

add_neighbour_unchecked(list, neighbour_agent) == Append(list, neighbour_agent)

\* if neighbour_agent not in self.neighbours: self.neighbours.append(...)
add_neighbour(list, neighbour_agent) ==
    IF \E i \in 1..Len(list) : list[i] = neighbour_agent
    THEN list
    ELSE Append(list, neighbour_agent)

RECURSIVE Entries(_, _)
Entries(lists, h) ==
    IF h > NumHouseholds THEN 0 ELSE Len(lists[h]) + Entries(lists, h + 1)

AddNeighbourCall(h, g) ==
    /\ \/ Entries(neighbours, 1) < MaxEntries
       \/ \E i \in 1..Len(neighbours[h]) : neighbours[h][i] = g
    /\ neighbours' = [neighbours EXCEPT ![h] = add_neighbour(@, g)]
    /\ UNCHANGED <<wealth, is_adapted, selected_measure, flood_damage_estimated,
                   flood_depth_estimated, flood_depth_actual, flood_damage_actual,
                   adaptation_budget, risk_aversness, subsidy_budget, steps,
                   turn, tickStart, collab, pass, created>>

NextNetwork == \E h \in 1..NetworkSize, g \in 1..NetworkSize : AddNeighbourCall(h, g)

InitNetwork ==
    Constructed([h \in Households |-> PoorProfile], NoNetwork, InitialSubsidyBudget)

SpecNetwork == InitNetwork /\ [][NextNetwork]_vars

(***************************************************************************)
(* Vocabulary of the properties.                                           *)
(***************************************************************************)
Range(list) == {list[i] : i \in 1..Len(list)}

RECURSIVE SumOver(_, _)
SumOver(f, S) ==
    IF S = {} THEN 0
    ELSE LET x == CHOOSE y \in S : TRUE IN f[x] + SumOver(f, S \ {x})

Min2(a, b) == IF a <= b THEN a ELSE b

\* the households whose wealth the last government step changed
Aided == {h \in Households : wealth[h] # pass.wealth[h]}

\* non-adapted with wealth below 10000 when the last government step began
EligibleAtPassStart ==
    {h \in Households : ~pass.is_adapted[h] /\ pass.wealth[h] < 10000}

\* a household step has just run and the government has not stepped since
AfterHouseholdStep == turn \in 2..GovernmentTurn
Stepped == turn - 1

(***************************************************************************)
(* C1: subsidy_budget is never negative and no step increases it; a step   *)
(* lowers it by 6000 for each household whose wealth it raises.            *)
(***************************************************************************)
C1_BudgetNonNegativeNonIncreasing ==
    /\ [](subsidy_budget >= 0)
    /\ [][/\ subsidy_budget' <= subsidy_budget
          /\ subsidy_budget - subsidy_budget' =
                 6000 * Cardinality({h \in Households : wealth'[h] # wealth[h]})]_vars

C1_Witness ==
    /\ pass.ran
    /\ Aided # {}
    /\ subsidy_budget = pass.subsidy_budget - 6000 * Cardinality(Aided)
    /\ subsidy_budget < 6000
    /\ EligibleAtPassStart \ Aided # {}

(***************************************************************************)
(* C2: one government step aids at most 3 households, however many are     *)
(* eligible.                                                               *)
(***************************************************************************)
C2_AtMostCapPerTick ==
    /\ Cardinality(Aided) <= 3
    /\ Len(pass.log) <= 3

C2_Witness ==
    /\ pass.ran
    /\ Cardinality(EligibleAtPassStart) > 3
    /\ Cardinality(Aided) = 3

(***************************************************************************)
(* C3: a pass begun with budget B and E eligible households aids exactly   *)
(* min(3, B div 6000, E) of them and leaves B minus 6000 for each.         *)
(***************************************************************************)
C3_PassAidsExactly ==
    pass.ran =>
        LET n == Min2(3, Min2(pass.subsidy_budget \div 6000,
                              Cardinality(EligibleAtPassStart)))
        IN  /\ Cardinality(Aided) = n
            /\ subsidy_budget = pass.subsidy_budget - n * 6000

C3_Witness ==
    /\ pass.ran
    /\ pass.subsidy_budget = 12000
    /\ Cardinality(EligibleAtPassStart) = 5
    /\ Cardinality(Aided) = 2
    /\ subsidy_budget = 0

(***************************************************************************)
(* C4: a household is aided only if it was non-adapted when the pass       *)
(* began, its wealth at the disbursal is below 10000 and the budget at the *)
(* disbursal is at least 6000; no household is aided twice in one pass.    *)
(***************************************************************************)
C4_AidedOnlyIfEligible ==
    /\ \A i \in 1..Len(pass.log) :
           /\ ~pass.is_adapted[pass.log[i].household]
           /\ pass.log[i].wealth < 10000
           /\ pass.log[i].subsidy_budget >= 6000
           /\ \A j \in 1..Len(pass.log) :
                  j # i => pass.log[j].household # pass.log[i].household
    /\ \A h \in Households :
           IF \E i \in 1..Len(pass.log) : pass.log[i].household = h
           THEN wealth[h] = pass.wealth[h] + 6000
           ELSE wealth[h] = pass.wealth[h]

C4_Witness ==
    /\ pass.ran
    /\ Cardinality(Aided) \in 1..2
    /\ subsidy_budget >= 6000
    /\ \E g \in Households :
           /\ ~pass.is_adapted[g]
           /\ pass.wealth[g] = 10000
           /\ g \notin Aided
           /\ \E h \in Aided : h > g

(***************************************************************************)
(* C5: if h is aided and g comes before h in the population order and was  *)
(* eligible when the pass began, then g is aided in that pass too.         *)
(***************************************************************************)
C5_AidedInPopulationOrder ==
    \A h \in Aided : \A g \in EligibleAtPassStart : g < h => g \in Aided

C5_Witness ==
    /\ pass.ran
    /\ Aided # {}
    /\ \E g \in EligibleAtPassStart : g \notin Aided /\ \A h \in Aided : h < g
    /\ \E g \in Households \ EligibleAtPassStart : \E h \in Aided : g < h

(***************************************************************************)
(* C6: the government step runs the allocation pass exactly when the step  *)
(* counter is a multiple of 4, first at counter 0; any other government    *)
(* step leaves the budget and every household unchanged.                   *)
(***************************************************************************)
C6_PassEveryFourthTick ==
    [][turn = GovernmentTurn =>
          /\ pass'.ran <=> (steps % 4 = 0)
          /\ steps = 0 => pass'.ran
          /\ steps % 4 # 0 =>
                 UNCHANGED <<subsidy_budget, wealth, is_adapted, selected_measure>>
          /\ (/\ steps % 4 = 0
              /\ subsidy_budget >= 6000
              /\ \E h \in Households : ~is_adapted[h] /\ wealth[h] < 10000)
                 => subsidy_budget' < subsidy_budget]_vars

C6_Witness ==
    /\ pass.steps = 4
    /\ pass.ran
    /\ Aided # {}
    /\ subsidy_budget < InitialSubsidyBudget - 6000 * Cardinality(Aided)

(***************************************************************************)
(* C7: every household step of a tick runs before the government step of   *)
(* that tick: no household step sees wealth that this tick's subsidies     *)
(* changed, and a household that became adapted during the tick is not     *)
(* subsidised in it.                                                       *)
(***************************************************************************)
C7_HouseholdsBeforeGovernment ==
    /\ turn \in Households => wealth = tickStart.wealth /\ pass.steps < steps
    /\ AfterHouseholdStep =>
           collab.total = tickStart.wealth[Stepped]
                          + SumOver(tickStart.wealth, Range(neighbours[Stepped]))
    /\ turn = EndOfRound =>
           /\ pass.steps = steps
           /\ collab.initiator = NumHouseholds
           /\ \A h \in Households :
                  ~tickStart.is_adapted[h] /\ pass.is_adapted[h]
                      => wealth[h] = tickStart.wealth[h]

C7_Witness ==
    /\ turn = EndOfRound
    /\ pass.ran
    /\ Aided # {}
    /\ \E h \in Households :
           /\ ~tickStart.is_adapted[h]
           /\ pass.is_adapted[h]
           /\ selected_measure[h] = "Collaborative project"
           /\ pass.wealth[h] < 10000

(***************************************************************************)
(* C8: at creation the selected measure is the costliest one that costs at *)
(* most the adaptation budget, and none when every measure costs more.     *)
(***************************************************************************)
ClaimedCost ==
    [m \in {"Sandbags", "Elevating the house", "Relocating electrical systems",
            "Collaborative project"} |->
        CASE m = "Sandbags" -> 5000
          [] m = "Elevating the house" -> 80000
          [] m = "Relocating electrical systems" -> 25000
          [] m = "Collaborative project" -> 1000000]

JustConstructed == steps = 0 /\ turn = 1

C8_CostliestAffordableMeasure ==
    JustConstructed =>
        \A h \in Households :
            LET B == adaptation_budget[h]
                affordable == {m \in DOMAIN ClaimedCost : ClaimedCost[m] <= B}
            IN  /\ IF affordable = {}
                   THEN selected_measure[h] = NoMeasure
                   ELSE /\ selected_measure[h] \in affordable
                        /\ \A m \in affordable :
                               ClaimedCost[m] <= ClaimedCost[selected_measure[h]]
                /\ B = 90000 => selected_measure[h] = "Elevating the house"
                /\ B = 100 => selected_measure[h] = NoMeasure

C8_Witness ==
    /\ JustConstructed
    /\ adaptation_budget[1] = 90000
    /\ selected_measure[1] = "Elevating the house"
    /\ adaptation_budget[2] = 0
    /\ selected_measure[2] = NoMeasure

(***************************************************************************)
(* C9: when the stepping household's wealth plus its neighbours' wealth    *)
(* exceeds 50000, the collaboration phase leaves every neighbour with the  *)
(* collaborative project and adapted and does not change the household's   *)
(* own measure; otherwise the phase changes no measure and no status.      *)
(***************************************************************************)
C9_CollaborationPhase ==
    AfterHouseholdStep =>
        LET h == Stepped
            total == wealth[h] + SumOver(wealth, Range(neighbours[h]))
        IN  /\ collab.initiator = h
            /\ selected_measure = collab.selected_measure
            /\ \A g \in Households \ {h} : is_adapted[g] = collab.is_adapted[g]
            /\ IF total > 50000
               THEN /\ \A n \in Range(neighbours[h]) :
                           /\ collab.selected_measure[n] = "Collaborative project"
                           /\ collab.is_adapted[n]
                    /\ collab.selected_measure[h] = collab.before.selected_measure[h]
               ELSE /\ collab.selected_measure = collab.before.selected_measure
                    /\ collab.is_adapted = collab.before.is_adapted

C9_Witness ==
    /\ AfterHouseholdStep
    /\ wealth[Stepped] + SumOver(wealth, Range(neighbours[Stepped])) > 50000
    /\ selected_measure[Stepped] # "Collaborative project"
    /\ \E n \in Range(neighbours[Stepped]) :
           /\ ~collab.before.is_adapted[n]
           /\ collab.before.selected_measure[n] = "Sandbags"
           /\ is_adapted[n]
           /\ selected_measure[n] = "Collaborative project"

(***************************************************************************)
(* C10: the evaluation of a household step sets is_adapted when the        *)
(* estimated damage is below 0.1, else when the selected measure reduces   *)
(* by at least 0.15 (elevating, relocating, collaborative; not sandbags),  *)
(* and otherwise keeps the value is_adapted had before the evaluation.     *)
(***************************************************************************)
C10_AdaptationEvaluation ==
    AfterHouseholdStep =>
        LET h == Stepped
        IN  is_adapted[h] =
                IF flood_damage_estimated[h] < 1000 THEN TRUE
                ELSE IF selected_measure[h] \in
                            {"Elevating the house", "Relocating electrical systems",
                             "Collaborative project"}
                     THEN TRUE
                     ELSE collab.is_adapted[h]

C10_Witness ==
    /\ AfterHouseholdStep
    /\ Stepped = 1
    /\ selected_measure[1] = "Relocating electrical systems"
    /\ flood_damage_estimated[1] >= 1000
    /\ ~collab.is_adapted[1]
    /\ is_adapted[1]
    /\ \E g \in Households : ~is_adapted[g] /\ selected_measure[g] = NoMeasure

(***************************************************************************)
(* C11: receive_subsidy(a) raises the household's wealth by exactly a,     *)
(* then sets is_adapted if the new wealth is at least 5000 and it was not  *)
(* adapted, and changes neither its measure nor any other household.       *)
(***************************************************************************)
C11_ReceiveSubsidy ==
    [][pass'.log # <<>> =>
          LET h == pass'.log[1].household
              a == pass'.log[1].amount
          IN  /\ wealth'[h] = wealth[h] + a
              /\ is_adapted'[h] =
                     IF wealth[h] + a >= 5000 /\ ~is_adapted[h]
                     THEN TRUE
                     ELSE is_adapted[h]
              /\ selected_measure' = selected_measure
              /\ \A g \in Households \ {h} :
                     wealth'[g] = wealth[g] /\ is_adapted'[g] = is_adapted[g]
              /\ UNCHANGED <<flood_damage_estimated, adaptation_budget,
                             risk_aversness, neighbours>>]_vars

C11_Witness ==
    /\ Len(pass.log) = 1
    /\ pass.log[1].amount = 2500
    /\ LET h == pass.log[1].household
       IN  /\ wealth[h] = pass.wealth[h] + 2500
           /\ wealth[h] = 5000
           /\ ~pass.is_adapted[h]
           /\ is_adapted[h]

(***************************************************************************)
(* C12: every household's estimated and actual flood damage stay within    *)
(* [0,1] (0..10000 here), the damage function returning a value in [0,1]   *)
(* and a negative depth sample being clamped to 0.                         *)
(***************************************************************************)
C12_DamageWithinUnitInterval ==
    \A h \in Households :
        /\ flood_damage_estimated[h] >= 0
        /\ flood_damage_estimated[h] <= 10000
        /\ flood_damage_actual[h] >= 0
        /\ flood_damage_actual[h] <= 10000
        /\ flood_depth_estimated[h] >= 0
        /\ flood_depth_actual[h] >= 0

C12_Witness ==
    /\ steps >= 1
    /\ flood_depth_estimated[1] = 900
    /\ selected_measure[1] = "Elevating the house"
    /\ flood_damage_estimated[1] = 7000
    /\ flood_damage_estimated[2] = 5000
    /\ flood_damage_actual[1] = 0

(***************************************************************************)
(* C13: after creation a household's selected measure changes only in the  *)
(* step of a household that lists it as a neighbour and whose pooled       *)
(* wealth exceeds 50000, and only to the collaborative project; the        *)
(* evaluation, a subsidy and the government step change no measure.        *)
(***************************************************************************)
C13_MeasureChangesOnlyByCollaboration ==
    [][/\ \A h \in Households :
              selected_measure'[h] # selected_measure[h] =>
                  /\ turn \in Households
                  /\ h \in Range(neighbours[turn])
                  /\ wealth[turn] + SumOver(wealth, Range(neighbours[turn])) > 50000
                  /\ selected_measure'[h] = "Collaborative project"
       /\ turn \in Households /\ turn' # turn =>
              selected_measure' = collab'.selected_measure
       /\ turn = GovernmentTurn => selected_measure' = selected_measure]_vars

C13_Witness ==
    /\ AfterHouseholdStep
    /\ Aided # {}
    /\ \E n \in Range(neighbours[Stepped]) :
           /\ collab.before.selected_measure[n] = NoMeasure
           /\ wealth[n] # created.wealth[n]
           /\ selected_measure[n] = "Collaborative project"
    /\ \E g \in Households \ (Range(neighbours[Stepped]) \cup {Stepped}) :
           selected_measure[g] = "Sandbags"

(***************************************************************************)
(* C14: no step changes a household's adaptation budget, estimated or      *)
(* actual damage, flood depths, risk aversion or neighbour list, nor the   *)
(* set of households: the budget stays that of the initial wealth after a  *)
(* subsidy, and the estimate is not rescaled when collaboration overwrites *)
(* the measure.                                                            *)
(***************************************************************************)
C14_OnlyWealthStatusMeasureChange ==
    /\ [][/\ UNCHANGED <<adaptation_budget, flood_damage_estimated,
                         flood_damage_actual, flood_depth_estimated,
                         flood_depth_actual, risk_aversness, neighbours>>
          /\ DOMAIN wealth' = DOMAIN wealth
          /\ DOMAIN is_adapted' = DOMAIN is_adapted
          /\ DOMAIN selected_measure' = DOMAIN selected_measure]_vars
    /\ [](\A h \in Households :
              adaptation_budget[h] = (created.wealth[h] * risk_aversness[h]) \div 100)

C14_Witness ==
    \E h \in Households :
        /\ wealth[h] = created.wealth[h] + 6000
        /\ selected_measure[h] = "Collaborative project"
        /\ adaptation_budget[h] = 0
        /\ (wealth[h] * risk_aversness[h]) \div 100 = 6000
        /\ flood_damage_estimated[h] = 5000

(***************************************************************************)
(* C15 as stated: after any sequence of add_neighbour calls the relation   *)
(* is undirected (A lists B exactly when B lists A) and no list holds a    *)
(* neighbour twice.  One call on one side refutes the first half.          *)
(***************************************************************************)
NoDuplicates(list) ==
    \A i, j \in 1..Len(list) : list[i] = list[j] => i = j

C15_UndirectedAfterAnyCalls ==
    /\ \A a, b \in Households :
           b \in Range(neighbours[a]) <=> a \in Range(neighbours[b])
    /\ \A h \in Households : NoDuplicates(neighbours[h])

(***************************************************************************)
(* C15 amended: a call h.add_neighbour(g) appends g to h's own list when g *)
(* is absent from it and otherwise changes nothing; it never changes       *)
(* another household's list, and no list ever holds a neighbour twice.     *)
(***************************************************************************)
C15_AddNeighbourOneSided ==
    [][/\ \A h \in Households : NoDuplicates(neighbours'[h])
       /\ neighbours' # neighbours =>
              \E h, g \in Households :
                  /\ g \notin Range(neighbours[h])
                  /\ neighbours' = [neighbours EXCEPT ![h] = Append(@, g)]]_vars

C15_Witness ==
    /\ Len(neighbours[1]) = 2
    /\ 2 \in Range(neighbours[1])
    /\ 1 \notin Range(neighbours[2])
    /\ 3 \in Range(neighbours[2])
    /\ 2 \notin Range(neighbours[3])

(***************************************************************************)
(* C16: is_adapted is monotone: no household step, collaboration, subsidy  *)
(* receipt or government step sets an adapted household back to            *)
(* non-adapted, over any sequence of ticks.                                *)
(***************************************************************************)
C16_AdaptedIsMonotone ==
    [][\A h \in Households : is_adapted[h] => is_adapted'[h]]_vars

\* A household adapted by a subsidy alone, with no measure and a damage
\* estimate of at least 0.1, has just taken a later step of its own.
C16_Witness ==
    /\ AfterHouseholdStep
    /\ steps >= 1
    /\ tickStart.is_adapted[Stepped]
    /\ selected_measure[Stepped] = NoMeasure
    /\ flood_damage_estimated[Stepped] >= minimum_damage_threshold
    /\ is_adapted[Stepped]

(***************************************************************************)
(* C17: over the whole run each household receives at most one subsidy:    *)
(* its wealth is its initial wealth or that plus 6000, an aided household  *)
(* is adapted from the disbursal on, and every wealth stays below 16000.   *)
(***************************************************************************)
C17_AtMostOneSubsidyEach ==
    \A h \in Households :
        /\ created.wealth[h] >= 0
        /\ wealth[h] \in {created.wealth[h], created.wealth[h] + 6000}
        /\ wealth[h] # created.wealth[h] => is_adapted[h]
        /\ wealth[h] < 16000

\* The second pass runs below its cap with budget left, and passes over a
\* household aided earlier whose wealth is still below the ceiling.
C17_Witness ==
    /\ turn = EndOfRound
    /\ pass.ran
    /\ pass.steps = 4
    /\ Cardinality(Aided) < PerTickCount
    /\ subsidy_budget >= subsidy_amount
    /\ \E h \in Households :
           /\ created.wealth[h] = 0
           /\ pass.wealth[h] = 6000
           /\ wealth[h] = 6000
           /\ is_adapted[h]

(***************************************************************************)
(* C18: subsidy money is conserved: the initial subsidy budget minus the   *)
(* current one equals the sum over the households of current minus initial *)
(* wealth, and each household's wealth is non-negative and never decreases.*)
(***************************************************************************)
C18_SubsidyConserved ==
    /\ [](/\ created.subsidy_budget - subsidy_budget
                = SumOver([h \in Households |-> wealth[h] - created.wealth[h]],
                          Households)
          /\ \A h \in Households : wealth[h] >= 0)
    /\ [][\A h \in Households : wealth'[h] >= wealth[h]]_vars

C18_Witness ==
    /\ turn = EndOfRound
    /\ pass.steps = 4
    /\ Aided # {}
    /\ created.subsidy_budget - subsidy_budget >= 4 * subsidy_amount
    /\ \E h \in Households : wealth[h] = created.wealth[h]

(***************************************************************************)
(* C19: with initial wealth in [0, 10000] and risk_aversness in [0, 1] the *)
(* adaptation budget never exceeds 10000, the selected measure is always   *)
(* none, Sandbags or Collaborative project, and a household whose damage   *)
(* estimate is at least 0.1 becomes adapted only by a subsidy or by the    *)
(* collaboration of a household that lists it as a neighbour.              *)
(***************************************************************************)
C19_LowBudgetMeasures ==
    /\ [](\A h \in Households :
              /\ adaptation_budget[h] <= 10000
              /\ selected_measure[h]
                    \in {NoMeasure, "Sandbags", "Collaborative project"})
    /\ [][\A h \in Households :
              (/\ ~is_adapted[h]
               /\ is_adapted'[h]
               /\ flood_damage_estimated[h] >= 1000)
              => \/ /\ turn = GovernmentTurn
                    /\ wealth'[h] = wealth[h] + 6000
                 \/ /\ turn \in Households
                    /\ turn # h
                    /\ h \in Range(neighbours[turn])
                    /\ collab'.total > 50000
                    /\ selected_measure'[h] = "Collaborative project"]_vars

\* A collaboration has just adapted a neighbour with a high damage estimate,
\* next to a household that bought Sandbags on a budget of 10000.
C19_Witness ==
    /\ AfterHouseholdStep
    /\ \E h \in Households :
           /\ h # Stepped
           /\ ~collab.before.is_adapted[h]
           /\ is_adapted[h]
           /\ selected_measure[h] = "Collaborative project"
           /\ flood_damage_estimated[h] >= 1000
    /\ \E g \in Households :
           /\ adaptation_budget[g] = 10000
           /\ selected_measure[g] = "Sandbags"
           /\ flood_damage_estimated[g] < 1000

(***************************************************************************)
(* C20: every unending run of ticks becomes quiescent: from some tick on   *)
(* no household's wealth, is_adapted or selected_measure and no subsidy    *)
(* budget changes again.  The disbursals of a run number at most the       *)
(* households and at most the initial budget divided by 6000 (33 for       *)
(* 200000); the budget left over need not be 0.                            *)
(***************************************************************************)
Quiescent ==
    /\ wealth = tickStart.wealth
    /\ is_adapted = tickStart.is_adapted
    /\ selected_measure = tickStart.selected_measure
    /\ subsidy_budget = tickStart.subsidy_budget

Disbursals == (created.subsidy_budget - subsidy_budget) \div subsidy_amount

C20_EventuallyQuiescent ==
    /\ <>[]Quiescent
    /\ [](/\ Disbursals <= NumHouseholds
          /\ Disbursals <= created.subsidy_budget \div 6000
          /\ created.subsidy_budget = 200000 => Disbursals <= 33)

\* A whole tick with a government pass has gone by without any change, with
\* money left in the budget and a household still waiting to be adapted.
C20_Witness ==
    /\ turn = EndOfRound
    /\ pass.ran
    /\ pass.log = <<>>
    /\ Quiescent
    /\ Disbursals >= 1
    /\ subsidy_budget > 0
    /\ \E h \in Households : ~is_adapted[h] /\ wealth[h] < 10000

====
